---- MODULE Spec2Model ----
(***************************************************************************)
(* Huffman compressor/decompressor of HuffmanEncoding.cpp.                 *)
(*                                                                         *)
(* Bytes are the integers 0..255.  An ext_char is an int: a character of   *)
(* the file, PSEUDO_EOF or NOT_A_CHAR.  A Map is a function whose domain   *)
(* is its key set; foreach visits the keys in ascending order.  A string   *)
(* of '0'/'1' characters is a sequence over {0, 1}; the text "-1" that     *)
(* integerToString gives for readBit's end-of-file result is the element   *)
(* -1, which like the text can never be part of a codeword.                *)
(* char is a signed 8-bit type (x86 builds).                               *)
(***************************************************************************)
EXTENDS Integers, Sequences, FiniteSets, TLC

VARIABLES
    call,       \* which entry point is running
    pc,         \* the next statement of that entry point
    infile,     \* the bytes of the file being compressed (decodeFile: encoded)
    inpos,      \* read position of the input stream of compress
    charCount,  \* compress: the table of getFrequencyTable; also a given table
    root,       \* the tree of the running call
    hdr,        \* the header bytes of the compressed file
    bits,       \* the bits of the compressed file after the header
    nbits,      \* how many of them encodeFile wrote
    encoded,    \* the code table encodeFile used
    readCount,  \* the table readFileHeader returned
    bpos,       \* decodeFile: next bit to read (1-based)
    currCode,   \* decodeFile: currCode
    out,        \* the bytes written by decodeFile
    steps,      \* the operations the running call has performed, in order
    heap,       \* number of Node objects allocated and not deleted
    dropped     \* number of (symbol, frequency) pairs cut off the header

vars == <<call, pc, infile, inpos, charCount, root, hdr, bits, nbits, encoded,
          readCount, bpos, currCode, out, steps, heap, dropped>>

----------------------------------------------------------------------------
(* Bounds of the model *)

MaxLen == 4        \* longest input file, in bytes
MaxTrail == 2      \* longest bit sequence appended after a payload
MaxWeight == 3     \* largest count in a given frequency table
MaxDrop == 1       \* most pairs cut off a header

\* The byte values input files are made of: ' ', '1', 'a', 'b' and 200.
Alphabet == {32, 49, 97, 98, 200}
\* The byte values of the files given to decodeFile directly.
DecodeAlphabet == {97, 98, 200}
\* The keys of the given frequency tables: the key getFrequencyTable stores
\* for byte 200, then ' ', '-', '1', and the sentinel.
TableKeys == {-56, 32, 45, 49, 256}
\* The uninitialised int frequency holds an indeterminate value: whatever
\* the stack slot held, the previous pair's frequency or any other int.
\* AnyInt stands for every value of the type; readFileHeader only stores it.
AnyInt == [indeterminate |-> "int"]
\* The uninitialised int numValues is compared with the loop counter, so it
\* is drawn as a number: what readFileHeader returns depends only on
\* whether it is positive.
IndeterminateCount == {-2147483647, -1, 0, 1, 2, 3}

----------------------------------------------------------------------------
(* Library constants and containers *)

PSEUDO_EOF == 256
NOT_A_CHAR == 257
EOF == -1
NULL == [isNull |-> TRUE]

\* Conversion of a byte read by istream::get(char&) to char, then to ext_char.
ToChar(b) == IF b >= 128 THEN b - 256 ELSE b
\* Conversion of an ext_char to char, written as one raw byte.
CharToByte(c) == c % 256

EmptyMap == [k \in {} |-> 0]
Put(mp, k, v) == [x \in (DOMAIN mp) \cup {k} |-> IF x = k THEN v ELSE mp[x]]

MinOf(S) == CHOOSE m \in S : \A x \in S : m <= x

RECURSIVE KeysFrom(_)
KeysFrom(S) == IF S = {} THEN <<>> ELSE <<MinOf(S)>> \o KeysFrom(S \ {MinOf(S)})
\* The keys of a Map in foreach order.
SortedKeys(mp) == KeysFrom(DOMAIN mp)

\* PriorityQueue: a sequence ordered by priority, equal priorities in
\* order of insertion; dequeue takes the head.
Enqueue(pq, v, p) ==
    LET k == Cardinality({i \in 1..Len(pq) : pq[i].priority <= p})
    IN  SubSeq(pq, 1, k) \o <<[value |-> v, priority |-> p]>> \o SubSeq(pq, k + 1, Len(pq))

----------------------------------------------------------------------------
(* getFrequencyTable *)

RECURSIVE CountChars(_, _)
CountChars(file, charCount0) ==
    IF file = <<>> THEN charCount0
    ELSE LET tmpChar == ToChar(Head(file))
             m0 == IF tmpChar \in DOMAIN charCount0 THEN charCount0
                   ELSE Put(charCount0, tmpChar, 0)
         IN  CountChars(Tail(file), Put(m0, tmpChar, m0[tmpChar] + 1))

getFrequencyTable(file) == Put(CountChars(file, EmptyMap), PSEUDO_EOF, 1)

----------------------------------------------------------------------------
(* buildEncodingTree *)

RECURSIVE EnqueueLeavesByChar(_, _, _)
EnqueueLeavesByChar(keys, frequencies, pq) ==
    IF keys = <<>> THEN pq
    ELSE LET ch == Head(keys)
             newNode == [character |-> ch, weight |-> frequencies[ch],
                         zero |-> NULL, one |-> NULL]
         IN  EnqueueLeavesByChar(Tail(keys), frequencies, Enqueue(pq, newNode, ch))

RECURSIVE EnqueueLeaves(_, _, _)
EnqueueLeaves(keys, frequencies, pq) ==
    IF keys = <<>> THEN pq
    ELSE LET ch == Head(keys)
             newNode == [character |-> ch, weight |-> frequencies[ch],
                         zero |-> NULL, one |-> NULL]
         IN  EnqueueLeaves(Tail(keys), frequencies, Enqueue(pq, newNode, frequencies[ch]))

RECURSIVE MergeFirstLast(_)
MergeFirstLast(pq) ==
    IF Len(pq) > 1
    THEN LET zeroNode == pq[1].value
             oneNode == pq[Len(pq)].value
             weight == zeroNode.weight + oneNode.weight
             parent == [character |-> NOT_A_CHAR, weight |-> weight,
                        zero |-> zeroNode, one |-> oneNode]
         IN  MergeFirstLast(Enqueue(SubSeq(pq, 2, Len(pq) - 1), parent, weight))
    ELSE pq[1].value

RECURSIVE MergeNodes(_)
MergeNodes(pq) ==
    IF Len(pq) > 1
    THEN LET zeroNode == pq[1].value
             oneNode == pq[2].value
             weight == zeroNode.weight + oneNode.weight
             parent == [character |-> NOT_A_CHAR, weight |-> weight,
                        zero |-> zeroNode, one |-> oneNode]
         IN  MergeNodes(Enqueue(SubSeq(pq, 3, Len(pq)), parent, weight))
    ELSE pq[1].value

buildEncodingTree(frequencies) ==
    MergeNodes(EnqueueLeaves(SortedKeys(frequencies), frequencies, <<>>))

RECURSIVE NodeCount(_)
\* The nodes freeTree deletes, which are the nodes buildEncodingTree allocated.
NodeCount(tree) ==
    IF tree = NULL THEN 0 ELSE NodeCount(tree.zero) + NodeCount(tree.one) + 1

----------------------------------------------------------------------------
(* getEncodedMap, getDecodedMap, encodeFile *)

RECURSIVE getEncodedMapSameBit(_, _, _)
getEncodedMapSameBit(tree, mp, code) ==
    IF tree = NULL THEN mp
    ELSE LET m1 == IF tree.character # NOT_A_CHAR
                   THEN Put(mp, tree.character, code) ELSE mp
             m2 == getEncodedMapSameBit(tree.zero, m1, Append(code, 0))
         IN  getEncodedMapSameBit(tree.one, m2, Append(code, 0))

RECURSIVE getEncodedMap(_, _, _)
getEncodedMap(tree, mp, code) ==
    IF tree = NULL THEN mp
    ELSE LET m1 == IF tree.character # NOT_A_CHAR
                   THEN Put(mp, tree.character, code) ELSE mp
             m2 == getEncodedMap(tree.zero, m1, Append(code, 0))
         IN  getEncodedMap(tree.one, m2, Append(code, 1))

RECURSIVE getDecodedMap(_, _, _)
getDecodedMap(tree, mp, code) ==
    IF tree = NULL THEN mp
    ELSE LET m1 == IF tree.character # NOT_A_CHAR
                   THEN Put(mp, code, tree.character) ELSE mp
             m2 == getDecodedMap(tree.zero, m1, Append(code, 0))
         IN  getDecodedMap(tree.one, m2, Append(code, 1))

RECURSIVE EncodeChars(_, _)
\* The loop of encodeFile over the bytes left in the input stream.
EncodeChars(file, encodedChars) ==
    IF file = <<>> THEN <<>>
    ELSE encodedChars[ToChar(Head(file))] \o EncodeChars(Tail(file), encodedChars)

encodeFileNoSentinel(file, encodingTree) ==
    EncodeChars(file, getEncodedMap(encodingTree, EmptyMap, <<>>))

\* The bits encodeFile writes for the bytes `file` left in the input stream.
encodeFile(file, encodingTree) ==
    LET encodedChars == getEncodedMap(encodingTree, EmptyMap, <<>>)
    IN  EncodeChars(file, encodedChars) \o encodedChars[PSEUDO_EOF]

\* obstream fills the last byte of the file with zero bits.
BytePadding(n) == [i \in 1..((8 - (n % 8)) % 8) |-> 0]

----------------------------------------------------------------------------
(* writeFileHeader *)

RECURSIVE Digits(_)
Digits(n) == IF n < 10 THEN <<48 + n>> ELSE Append(Digits(n \div 10), 48 + (n % 10))
\* operator<<(int): decimal text, as bytes.
IntToText(n) == IF n < 0 THEN <<45>> \o Digits(0 - n) ELSE Digits(n)

\* One pair of the header: outfile << char(ch) << frequencies[ch] << ' '.
PairText(ch, frequencies) == <<CharToByte(ch)>> \o IntToText(frequencies[ch]) \o <<32>>

RECURSIVE WritePairs(_, _)
WritePairs(keys, frequencies) ==
    IF keys = <<>> THEN <<>>
    ELSE (IF Head(keys) = PSEUDO_EOF THEN <<>> ELSE PairText(Head(keys), frequencies))
         \o WritePairs(Tail(keys), frequencies)

\* The bytes writeFileHeader writes (the table holds PSEUDO_EOF).
writeFileHeader(frequencies) ==
    IntToText(Cardinality(DOMAIN frequencies) - 1) \o <<32>>
        \o WritePairs(SortedKeys(frequencies), frequencies)

----------------------------------------------------------------------------
(* readFileHeader.  A stream is [data, pos, ok]: ok is FALSE once failbit  *)
(* or eofbit is set, after which every read fails.                         *)

IsSpace(b) == b \in {9, 10, 11, 12, 13, 32}
IsDigit(b) == b \in 48..57

\* istream::get(): the next byte, or EOF.
Get(st) ==
    IF st.ok /\ st.pos <= Len(st.data)
    THEN [c |-> st.data[st.pos], st |-> [st EXCEPT !.pos = @ + 1]]
    ELSE [c |-> EOF, st |-> [st EXCEPT !.ok = FALSE]]

RECURSIVE SkipSpace(_, _)
SkipSpace(data, pos) ==
    IF pos <= Len(data) /\ IsSpace(data[pos]) THEN SkipSpace(data, pos + 1) ELSE pos

RECURSIVE ScanDigits(_, _, _)
ScanDigits(data, pos, acc) ==
    IF pos <= Len(data) /\ IsDigit(data[pos])
    THEN ScanDigits(data, pos + 1, 10 * acc + (data[pos] - 48))
    ELSE [pos |-> pos, val |-> acc]

\* operator>>(int&) on a variable holding `old`: a failed stream or one at its
\* end leaves the variable as it was; text that is no number stores 0.
ReadInt(st, old) ==
    IF ~st.ok THEN [v |-> old, st |-> st]
    ELSE LET p0 == SkipSpace(st.data, st.pos)
         IN  IF p0 > Len(st.data)
             THEN [v |-> old, st |-> [st EXCEPT !.pos = p0, !.ok = FALSE]]
             ELSE LET signed == st.data[p0] \in {43, 45}
                      p1 == IF signed THEN p0 + 1 ELSE p0
                      d == ScanDigits(st.data, p1, 0)
                  IN  IF d.pos = p1
                      THEN [v |-> 0, st |-> [st EXCEPT !.pos = p1, !.ok = FALSE]]
                      ELSE [v |-> IF st.data[p0] = 45 THEN 0 - d.val ELSE d.val,
                            st |-> [st EXCEPT !.pos = d.pos]]

RECURSIVE ReadPairs(_, _, _, _, _)
\* The for loop of readFileHeader; frequency0 is what the uninitialised
\* frequency of an iteration holds before infile >> frequency.
ReadPairs(st, i, numValues, result, frequency0) ==
    IF i < numValues
    THEN LET g == Get(st)
             f == ReadInt(g.st, frequency0)
             s == Get(f.st)
         IN  ReadPairs(s.st, i + 1, numValues, Put(result, g.c, f.v), frequency0)
    ELSE [result |-> result, st |-> st]

\* readFileHeader on a stream holding `data`: the table it returns and the
\* stream it leaves.  numValues0 and frequency0 are what the two
\* uninitialised variables, numValues and frequency, hold.
readFileHeader(data, numValues0, frequency0) ==
    LET n == ReadInt([data |-> data, pos |-> 1, ok |-> TRUE], numValues0)
        s == Get(n.st)
        r == ReadPairs(s.st, 0, n.v, EmptyMap, frequency0)
    IN  [result |-> Put(r.result, PSEUDO_EOF, 1), st |-> r.st]

----------------------------------------------------------------------------
(* compress, then decompress of the file it wrote *)

RECURSIVE SeqsUpTo(_, _)
SeqsUpTo(S, n) == IF n = 0 THEN {<<>>} ELSE SeqsUpTo(S, n - 1) \cup [1..n -> S]

Init ==
    /\ call = "compress"
    /\ pc = "count"
    /\ infile \in SeqsUpTo(Alphabet, MaxLen)
    /\ inpos = 1
    /\ charCount = EmptyMap
    /\ root = NULL
    /\ hdr = <<>>
    /\ bits = <<>>
    /\ nbits = 0
    /\ encoded = EmptyMap
    /\ readCount = EmptyMap
    /\ bpos = 1
    /\ currCode = <<>>
    /\ out = <<>>
    /\ steps = <<>>
    /\ heap = 0
    /\ dropped = 0

\* The bytes an input stream at position inpos still gives.
Rest == SubSeq(infile, inpos, Len(infile))

Compress_getFrequencyTable ==
    /\ call = "compress" /\ pc = "count"
    /\ charCount' = getFrequencyTable(Rest)
    /\ inpos' = Len(infile) + 1
    /\ steps' = Append(steps, "count")
    /\ pc' = "build"
    /\ UNCHANGED <<call, infile, root, hdr, bits, nbits, encoded, readCount,
                   bpos, currCode, out, heap, dropped>>

Compress_buildEncodingTree ==
    /\ call = "compress" /\ pc = "build"
    /\ LET tree == buildEncodingTree(charCount)
       IN  root' = tree /\ heap' = heap + NodeCount(tree)
    /\ steps' = Append(steps, "build")
    /\ pc' = "header"
    /\ UNCHANGED <<call, infile, inpos, charCount, hdr, bits, nbits, encoded,
                   readCount, bpos, currCode, out, dropped>>

Compress_writeFileHeader ==
    /\ call = "compress" /\ pc = "header"
    /\ IF PSEUDO_EOF \in DOMAIN charCount
       THEN /\ hdr' = writeFileHeader(charCount)
            /\ steps' = Append(steps, "header")
            /\ pc' = "rewind"
       ELSE /\ pc' = "error"
            /\ UNCHANGED <<hdr, steps>>
    /\ UNCHANGED <<call, infile, inpos, charCount, root, bits, nbits, encoded,
                   readCount, bpos, currCode, out, heap, dropped>>

Compress_rewind ==
    /\ call = "compress" /\ pc = "rewind"
    /\ inpos' = 1
    /\ steps' = Append(steps, "rewind")
    /\ pc' = "encode"
    /\ UNCHANGED <<call, infile, charCount, root, hdr, bits, nbits, encoded,
                   readCount, bpos, currCode, out, heap, dropped>>

Compress_encodeFile ==
    /\ call = "compress" /\ pc = "encode"
    /\ LET payload == encodeFile(Rest, root)
       IN  /\ bits' = payload \o BytePadding(Len(payload))
           /\ nbits' = Len(payload)
    /\ encoded' = getEncodedMap(root, EmptyMap, <<>>)
    /\ inpos' = Len(infile) + 1
    /\ steps' = Append(steps, "encode")
    /\ pc' = "free"
    /\ UNCHANGED <<call, infile, charCount, root, hdr, readCount, bpos,
                   currCode, out, heap, dropped>>

Compress_freeTree ==
    /\ call = "compress" /\ pc = "free"
    /\ heap' = heap - NodeCount(root)
    /\ root' = NULL
    /\ steps' = Append(steps, "free")
    /\ pc' = "done"
    /\ UNCHANGED <<call, infile, inpos, charCount, hdr, bits, nbits, encoded,
                   readCount, bpos, currCode, out, dropped>>

\* decompress is called on the file compress wrote.
Decompress_call ==
    /\ call = "compress" /\ pc = "done"
    /\ call' = "decompress"
    /\ pc' = "read"
    /\ steps' = <<>>
    /\ UNCHANGED <<infile, inpos, charCount, root, hdr, bits, nbits, encoded,
                   readCount, bpos, currCode, out, heap, dropped>>

Decompress_readFileHeader ==
    /\ call = "decompress" /\ pc = "read"
    /\ \E numValues0 \in IndeterminateCount :
          readCount' = readFileHeader(hdr, numValues0, AnyInt).result
    /\ steps' = Append(steps, "read")
    /\ pc' = "build"
    /\ UNCHANGED <<call, infile, inpos, charCount, root, hdr, bits, nbits,
                   encoded, bpos, currCode, out, heap, dropped>>

Decompress_buildEncodingTree ==
    /\ call = "decompress" /\ pc = "build"
    /\ LET tree == buildEncodingTree(readCount)
       IN  root' = tree /\ heap' = heap + NodeCount(tree)
    /\ steps' = Append(steps, "build")
    /\ pc' = "decode"
    /\ UNCHANGED <<call, infile, inpos, charCount, hdr, bits, nbits, encoded,
                   readCount, bpos, currCode, out, dropped>>

----------------------------------------------------------------------------
(* decodeFile, one iteration of its loop per step *)

\* ibstream::readBit(): the next bit, or EOF when none is left.
readBit == IF bpos <= Len(bits) THEN bits[bpos] ELSE EOF
AfterReadBit == IF bpos <= Len(bits) THEN bpos + 1 ELSE bpos

decodedBits == getDecodedMap(root, EmptyMap, <<>>)

\* The longest key of decodedBits.  A currCode longer than it is a key
\* never again, and currCode only grows until it is one: the loop has no
\* exit from there, and the model follows it no further.
LongestCode == LET L == {Len(c) : c \in DOMAIN decodedBits}
               IN  CHOOSE m \in L : \A x \in L : x <= m

NextCode == Append(currCode, readBit)

DecodeRead ==
    /\ pc = "decode"
    /\ Len(currCode) <= LongestCode
    /\ NextCode \notin DOMAIN decodedBits
    /\ currCode' = NextCode
    /\ bpos' = AfterReadBit
    /\ UNCHANGED <<call, pc, infile, inpos, charCount, root, hdr, bits, nbits,
                   encoded, readCount, out, steps, heap, dropped>>

DecodeEmit ==
    /\ pc = "decode"
    /\ NextCode \in DOMAIN decodedBits
    /\ decodedBits[NextCode] # PSEUDO_EOF
    /\ out' = Append(out, CharToByte(decodedBits[NextCode]))
    /\ currCode' = <<>>
    /\ bpos' = AfterReadBit
    /\ UNCHANGED <<call, pc, infile, inpos, charCount, root, hdr, bits, nbits,
                   encoded, readCount, steps, heap, dropped>>

DecodeStop ==
    /\ pc = "decode"
    /\ NextCode \in DOMAIN decodedBits
    /\ decodedBits[NextCode] = PSEUDO_EOF
    /\ currCode' = NextCode
    /\ bpos' = AfterReadBit
    /\ steps' = Append(steps, "decode")
    /\ pc' = IF call = "decompress" THEN "free" ELSE "done"
    /\ UNCHANGED <<call, infile, inpos, charCount, root, hdr, bits, nbits,
                   encoded, readCount, out, heap, dropped>>

Decompress_freeTree ==
    /\ call = "decompress" /\ pc = "free"
    /\ heap' = heap - NodeCount(root)
    /\ root' = NULL
    /\ steps' = Append(steps, "free")
    /\ pc' = "done"
    /\ UNCHANGED <<call, infile, inpos, charCount, hdr, bits, nbits, encoded,
                   readCount, bpos, currCode, out, dropped>>

Next ==
    \/ Compress_getFrequencyTable
    \/ Compress_buildEncodingTree
    \/ Compress_writeFileHeader
    \/ Compress_rewind
    \/ Compress_encodeFile
    \/ Compress_freeTree
    \/ Decompress_call
    \/ Decompress_readFileHeader
    \/ Decompress_buildEncodingTree
    \/ DecodeRead
    \/ DecodeEmit
    \/ DecodeStop
    \/ Decompress_freeTree

Spec == Init /\ [][Next]_vars

----------------------------------------------------------------------------
(* decodeFile on the payload encodeFile wrote for a file, with the tree     *)
(* encodeFile used, followed by arbitrary bits                              *)

InitD ==
    /\ call = "decodeFile"
    /\ pc = "decode"
    /\ infile \in SeqsUpTo(DecodeAlphabet, MaxLen)
    /\ inpos = Len(infile) + 1
    /\ charCount = getFrequencyTable(infile)
    /\ root = buildEncodingTree(charCount)
    /\ hdr = <<>>
    /\ \E trail \in SeqsUpTo({0, 1}, MaxTrail) :
          bits = encodeFile(infile, root) \o trail
    /\ nbits = Len(encodeFile(infile, root))
    /\ encoded = getEncodedMap(root, EmptyMap, <<>>)
    /\ readCount = EmptyMap
    /\ bpos = 1
    /\ currCode = <<>>
    /\ out = <<>>
    /\ steps = <<>>
    /\ heap = NodeCount(root)
    /\ dropped = 0

NextD ==
    \/ DecodeRead
    \/ DecodeEmit
    \/ DecodeStop

SpecD == InitD /\ [][NextD]_vars

----------------------------------------------------------------------------
(* A given frequency table: its tree, its header, and the header read back, *)
(* possibly after the file lost its last pairs                              *)

Tables == UNION {[K -> 1..MaxWeight] : K \in (SUBSET TableKeys) \ {{}}}

InitT ==
    /\ call = "table"
    /\ pc = "build"
    /\ infile = <<>>
    /\ inpos = 1
    /\ charCount \in Tables
    /\ root = NULL
    /\ hdr = <<>>
    /\ bits = <<>>
    /\ nbits = 0
    /\ encoded = EmptyMap
    /\ readCount = EmptyMap
    /\ bpos = 1
    /\ currCode = <<>>
    /\ out = <<>>
    /\ steps = <<>>
    /\ heap = 0
    /\ dropped = 0

Table_buildEncodingTree ==
    /\ call = "table" /\ pc = "build"
    /\ LET tree == buildEncodingTree(charCount)
       IN  root' = tree /\ heap' = heap + NodeCount(tree)
    /\ pc' = "write"
    /\ UNCHANGED <<call, infile, inpos, charCount, hdr, bits, nbits, encoded,
                   readCount, bpos, currCode, out, steps, dropped>>

Table_writeFileHeader ==
    /\ call = "table" /\ pc = "write"
    /\ IF PSEUDO_EOF \in DOMAIN charCount
       THEN /\ hdr' = writeFileHeader(charCount)
            /\ pc' = "read"
       ELSE /\ pc' = "error"
            /\ UNCHANGED hdr
    /\ UNCHANGED <<call, infile, inpos, charCount, root, bits, nbits, encoded,
                   readCount, bpos, currCode, out, steps, heap, dropped>>

\* The keys whose pairs the header holds, in the order written.
PairKeys == SelectSeq(SortedKeys(charCount), LAMBDA k : k # PSEUDO_EOF)

\* The file loses its last (symbol, frequency) pair; the count stays.
Table_truncate ==
    /\ call = "table" /\ pc = "read"
    /\ dropped < MaxDrop
    /\ dropped < Len(PairKeys)
    /\ LET last == PairKeys[Len(PairKeys) - dropped]
       IN  hdr' = SubSeq(hdr, 1, Len(hdr) - Len(PairText(last, charCount)))
    /\ dropped' = dropped + 1
    /\ UNCHANGED <<call, pc, infile, inpos, charCount, root, bits, nbits,
                   encoded, readCount, bpos, currCode, out, steps, heap>>

Table_readFileHeader ==
    /\ call = "table" /\ pc = "read"
    /\ \E numValues0 \in IndeterminateCount :
          readCount' = readFileHeader(hdr, numValues0, AnyInt).result
    /\ pc' = "done"
    /\ UNCHANGED <<call, infile, inpos, charCount, root, hdr, bits, nbits,
                   encoded, bpos, currCode, out, steps, heap, dropped>>

NextT ==
    \/ Table_buildEncodingTree
    \/ Table_writeFileHeader
    \/ Table_truncate
    \/ Table_readFileHeader

SpecT == InitT /\ [][NextT]_vars

----------------------------------------------------------------------------
(* Properties *)

IsPrefix(a, b) == Len(a) <= Len(b) /\ SubSeq(b, 1, Len(a)) = a

\* The table the tree of the running call was built from.
BuiltFrom == IF call = "decompress" THEN readCount ELSE charCount

RECURSIVE TreeCost(_, _)
\* Sum over the leaves of weight times depth.
TreeCost(tree, depth) ==
    IF tree = NULL THEN 0
    ELSE IF tree.character # NOT_A_CHAR THEN tree.weight * depth
    ELSE TreeCost(tree.zero, depth + 1) + TreeCost(tree.one, depth + 1)

RECURSIVE SumWeights(_, _)
SumWeights(K, w) ==
    IF K = {} THEN 0
    ELSE LET k == CHOOSE x \in K : TRUE IN w[k] + SumWeights(K \ {k}, w)

RECURSIVE OptCost(_, _)
\* The least weighted code length of a binary tree whose leaves are the
\* symbols K: a tree over two or more symbols splits them in two.
OptCost(K, w) ==
    IF Cardinality(K) <= 1 THEN 0
    ELSE LET x == CHOOSE k \in K : TRUE
             costs == {OptCost(A, w) + OptCost(K \ A, w) :
                          A \in {B \in SUBSET K : x \in B /\ B # K}}
         IN  SumWeights(K, w) + (CHOOSE m \in costs : \A c \in costs : m <= c)

\* decodeFile can no longer return: currCode is longer than every key.
LoopsForever == pc = "decode" /\ Len(currCode) > LongestCode

\* C1: compress of a file, then decompress of what it wrote, ends and
\* writes exactly the bytes of the file.
C1_RoundTrip ==
    call = "decompress" =>
        /\ ~LoopsForever
        /\ pc = "done" => out = infile

\* C2: given a tree whose root is the sentinel leaf, decodeFile returns at
\* once: its first step ends it, with no bit read and no byte written.
C2_SingleLeafStops ==
    [][(pc = "decode" /\ root.character = PSEUDO_EOF)
         => (pc' = "done" /\ bpos' = 1 /\ out' = <<>>)]_vars

\* C3: a table holding the sentinel with count 1 is read back from its
\* header key for key and count for count.
C3_HeaderRoundTrip ==
    (call = "table" /\ pc = "done" /\ dropped = 0
       /\ PSEUDO_EOF \in DOMAIN charCount /\ charCount[PSEUDO_EOF] = 1)
    => readCount = charCount

\* C4: a header that declares more pairs than the file holds makes
\* readFileHeader fail: no table comes back from it.
C4_CountMismatchFatal ==
    (call = "table" /\ dropped > 0 /\ pc # "read") => pc = "error"

\* C5: with two or more leaves, decodeFile on the payload followed by any
\* bits writes a prefix of the file while it runs, always has a payload bit
\* left to read, and returns having read the payload and nothing more and
\* written exactly the file.
C5_TrailingBitsIgnored ==
    (call = "decodeFile" /\ infile # <<>>) =>
        /\ IsPrefix(out, infile)
        /\ pc = "decode" => (bpos <= nbits /\ ~LoopsForever)
        /\ pc = "done" => (out = infile /\ bpos = nbits + 1)

C5_Witness ==
    /\ call = "decodeFile" /\ pc = "done"
    /\ Len(infile) >= 2 /\ Len(bits) > nbits /\ bits[nbits + 1] = 1

\* C6: the code table of a built tree gives every symbol of the table one
\* codeword, the path to its only leaf, and no codeword is a prefix of
\* another symbol's.
C6_PrefixFree ==
    (call = "table" /\ pc # "build") =>
        LET codes == getEncodedMap(root, EmptyMap, <<>>)
        IN  /\ DOMAIN codes = DOMAIN charCount
            /\ Cardinality(DOMAIN decodedBits) = Cardinality(DOMAIN charCount)
            /\ \A c \in DOMAIN decodedBits : codes[decodedBits[c]] = c
            /\ \A a, b \in DOMAIN codes :
                  a # b => ~IsPrefix(codes[a], codes[b])

C6_Witness ==
    /\ call = "table" /\ pc = "write"
    /\ Cardinality(DOMAIN charCount) = Cardinality(TableKeys)
    /\ root.zero # NULL

\* C7: the built tree has the least weighted code length of all binary
\* trees over the symbols of the table.
C7_Optimal ==
    (call = "table" /\ pc # "build") =>
        TreeCost(root, 0) = OptCost(DOMAIN charCount, charCount)

C7_Witness ==
    /\ call = "table" /\ pc = "write"
    /\ Cardinality(DOMAIN charCount) >= 4
    /\ \E a, b \in DOMAIN charCount : charCount[a] = 1 /\ charCount[b] = MaxWeight
    /\ TreeCost(root, 0) > 0

\* C8: in the code table of a built tree a heavier symbol never has the
\* longer codeword; and for {a:3, b:1, EOF:1} the leaves b and EOF are the
\* children of one node and a's codeword is shorter than b's.
C8_HeavierNotLonger ==
    (call \in {"compress", "decompress"} /\ root # NULL) =>
        LET codes == getEncodedMap(root, EmptyMap, <<>>)
        IN  /\ \A a, b \in DOMAIN BuiltFrom :
                  BuiltFrom[a] > BuiltFrom[b] => Len(codes[a]) <= Len(codes[b])
            /\ BuiltFrom = [k \in {97, 98, PSEUDO_EOF} |-> IF k = 97 THEN 3 ELSE 1]
               => /\ \E n \in {root.zero, root.one} :
                        /\ n.character = NOT_A_CHAR
                        /\ {n.zero.character, n.one.character} = {98, PSEUDO_EOF}
                  /\ Len(codes[97]) < Len(codes[98])

C8_Witness ==
    /\ call = "compress" /\ pc = "header"
    /\ infile = <<97, 97, 97, 98>>
    /\ root.one.character = 97

\* C9: the tree decompress builds gives every byte of the file, and the
\* sentinel, the codeword compress encoded it with.
C9_SameCode ==
    (call = "decompress" /\ pc = "decode") =>
        \A c \in DOMAIN decodedBits :
            LET k == IF decodedBits[c] = PSEUDO_EOF THEN PSEUDO_EOF
                     ELSE ToChar(CharToByte(decodedBits[c]))
            IN  k \in DOMAIN encoded /\ encoded[k] = c

CompressSteps == <<"count", "build", "header", "rewind", "encode", "free">>
DecompressSteps == <<"read", "build", "decode", "free">>

\* C10: a call performs its operations in the order of its body, has built
\* and released one tree when it ends, and every call that has started goes
\* on to its release: none is in a loop it cannot leave.
C10_Sequencing ==
    /\ call = "compress" =>
          /\ IsPrefix(steps, CompressSteps)
          /\ pc = "done" => (steps = CompressSteps /\ heap = 0)
    /\ call = "decompress" =>
          /\ IsPrefix(steps, DecompressSteps)
          /\ pc = "done" => (steps = DecompressSteps /\ heap = 0)
    /\ ~LoopsForever

====
